---- MODULE Spec2Model ----
(***************************************************************************)
(* Boston Speed Read (generate_summaries.py): the hook pipeline            *)
(* generate -> validate -> repair (x2) -> fallback-by-category, the        *)
(* rolling window of recent hooks, and the history archive merge.          *)
(*                                                                         *)
(* Text is modelled character by character: a Python str is a sequence of  *)
(* characters, each character a one-character TLA+ string; the non-ASCII   *)
(* characters of the source are the named atoms below.                     *)
(***************************************************************************)
EXTENDS Integers, Sequences, FiniteSets, TLC

(* ------------------------------------------------------------------ *)
(* Characters and strings                                               *)
(* ------------------------------------------------------------------ *)

\* A Python str from a TLA+ string literal (ASCII only).
S(str) == [k \in 1..Len(str) |-> SubSeq(str, k, k)]

RSQUO  == "RSQUO"    \* U+2019 right single quotation mark
LDQUO  == "LDQUO"    \* U+201C left double quotation mark
RDQUO  == "RDQUO"    \* U+201D right double quotation mark
BULLET == "BULLET"   \* U+2022 bullet
DQUOTE == "\""       \* U+0022 straight double quote

UpperChars == S("ABCDEFGHIJKLMNOPQRSTUVWXYZ")
LowerChars == S("abcdefghijklmnopqrstuvwxyz")
DigitChars == S("0123456789")

IsUpper(c) == \E k \in 1..Len(UpperChars) : UpperChars[k] = c
IsLower(c) == \E k \in 1..Len(LowerChars) : LowerChars[k] = c
IsDigit(c) == \E k \in 1..Len(DigitChars) : DigitChars[k] = c
IsSpace(c) == c \in {" ", "\t", "\n"}
\* \w of the re module: letters, digits and the underscore.
IsWordChar(c) == IsUpper(c) \/ IsLower(c) \/ IsDigit(c) \/ c = "_"

Min(a, b) == IF a < b THEN a ELSE b
SetMax(X) == CHOOSE x \in X : \A y \in X : y <= x
SetMin(X) == CHOOSE x \in X : \A y \in X : x <= y

\* str.lower() on one character and on a string.
LowerChar(c) ==
    IF IsUpper(c)
    THEN LowerChars[CHOOSE k \in 1..Len(UpperChars) : UpperChars[k] = c]
    ELSE c
Lower(s) == [k \in 1..Len(s) |-> LowerChar(s[k])]

\* s[:n]
Take(s, n) == SubSeq(s, 1, Min(n, Len(s)))

\* p in s (substring test)
Contains(s, p) ==
    \E k \in 0..(Len(s) - Len(p)) : SubSeq(s, k + 1, k + Len(p)) = p

\* c in s (one character)
HasChar(s, c) == \E k \in 1..Len(s) : s[k] = c

\* len(s.split()): the number of maximal runs of non-whitespace.
WordCount(s) ==
    Cardinality({k \in 1..Len(s) :
        /\ ~IsSpace(s[k])
        /\ (k = 1 \/ IsSpace(s[k - 1]))})

\* s.strip(chars): drop the characters of the set from both ends.
Strip(s, chars) ==
    LET kept == {k \in 1..Len(s) : s[k] \notin chars}
    IN  IF kept = {} THEN <<>> ELSE SubSeq(s, SetMin(kept), SetMax(kept))

Whitespace == {" ", "\t", "\n"}

\* re.sub(r"\s+", " ", s): every maximal run of whitespace becomes one
\* space, that is, of each run only the first character stays, as a space.
CollapseSpaces(s) ==
    LET stays == SelectSeq([k \in 1..Len(s) |-> k],
                           LAMBDA k : ~IsSpace(s[k]) \/ k = 1 \/ ~IsSpace(s[k - 1]))
    IN  [n \in 1..Len(stays) |->
            IF IsSpace(s[stays[n]]) THEN " " ELSE s[stays[n]]]

\* re.sub(r"\s+", " ", x).strip(), then drop one trailing period
\* (summarize, lines 146-147 and 151-152).
NormalizeHook(x) ==
    LET h == Strip(CollapseSpaces(x), Whitespace)
    IN  IF h # <<>> /\ h[Len(h)] = "." THEN SubSeq(h, 1, Len(h) - 1) ELSE h

\* b.strip(" •-•") of line 141.
StripBullet(b) == Strip(b, {" ", BULLET, "-"})

\* .strip().strip('"') of repair_hook, line 130.
StripReply(r) == Strip(Strip(r, Whitespace), {DQUOTE})

(* ------------------------------------------------------------------ *)
(* Configuration tables                                                 *)
(* ------------------------------------------------------------------ *)

HOOK_TYPES ==
    << "STAT_POINT", "QUOTE_SHARD", "LOCAL_IMPACT",
       "WHAT_CHANGED", "TIMELINE", "COMPARISON", "ODD_DETAIL" >>

BANNED ==
    { S("why it matters"), S("what happens next"), S("raises questions"),
      S("sparks debate"), S("the real reason"),
      S("surprising"), S("shocking"), S("stunning"), S("nobody saw coming"),
      S("could be set to"),
      S("what you need to know"), S("what to know"), S("could be"),
      S("might"), S("reveals"), S("you "), S("you") \o <<RSQUO>> \o S("ll"),
      S("you can"), S("you might") }

\* The literal of line 144, the hook of the bullet fallback.
FAILURE_HOOK == S("Orange Line headways widen to 12 minutes Thursday")

\* The if/elif chain of lines 155-161.
FallbackHook(ht) ==
    IF ht = "STAT_POINT" THEN S("Attendance hit 20,000, team said")
    ELSE IF ht = "QUOTE_SHARD"
    THEN S("Coach: ") \o <<DQUOTE>> \o S("We") \o <<RSQUO>>
            \o S("re thin at center") \o <<DQUOTE>>
    ELSE IF ht = "LOCAL_IMPACT"
    THEN S("Orange Line headways widen to 12 minutes Thursday")
    ELSE IF ht = "WHAT_CHANGED"
    THEN S("Permit hearings drop the in-person requirement")
    ELSE IF ht = "TIMELINE" THEN S("Formal vote scheduled Sept. 18")
    ELSE IF ht = "COMPARISON"
    THEN S("Costs run 28% higher than Cambridge") \o <<RSQUO>> \o S("s plan")
    ELSE S("House includes a mushroom-shaped reading nook")

\* The hook type not cycled: the first one for every position.
pick_hook_type_first(n) == HOOK_TYPES[1]

\* HOOK_TYPES[i % len(HOOK_TYPES)], positions counted from 0.
pick_hook_type(n) == HOOK_TYPES[(n % Len(HOOK_TYPES)) + 1]

MAX_WORDS == 14     \* line 108
MAX_REPAIRS == 2    \* line 149
WINDOW == 10        \* line 163
TITLE_CUT == 90     \* line 144
DESC_CUT == 110     \* line 144

(* ------------------------------------------------------------------ *)
(* HookValidator                                                        *)
(* ------------------------------------------------------------------ *)

\* violates_ban without the test of line 107.
violates_ban_no_question(s) ==
    \/ WordCount(s) > MAX_WORDS
    \/ \E p \in BANNED : Contains(Lower(s), p)

violates_ban(s) ==
    LET t == Lower(s)
    IN  \/ HasChar(s, "?")
        \/ WordCount(s) > MAX_WORDS
        \/ \E p \in BANNED : Contains(t, p)

\* RE_HAS_NUM: \d
HasNum(s) == \E k \in 1..Len(s) : IsDigit(s[k])

\* The maximal run of characters satisfying a class that starts at k:
\* the index of its last character (k - 1 when s[k] is not in the class).
LowerRunEnd(s, k) ==
    SetMax({e \in (k - 1)..Len(s) : \A m \in k..e : IsLower(s[m])})
UpperRunEnd(s, k) ==
    SetMax({e \in (k - 1)..Len(s) : \A m \in k..e : IsUpper(s[m])})
SpaceRunEnd(s, k) ==
    SetMax({e \in (k - 1)..Len(s) : \A m \in k..e : IsSpace(s[m])})

\* \b before position k / after position k (s[k] is a word character).
BoundaryBefore(s, k) == k = 1 \/ ~IsWordChar(s[k - 1])
BoundaryAfter(s, k) == k = Len(s) \/ ~IsWordChar(s[k + 1])

\* [A-Z][a-z]+ starting at k: the index of the end of the lowercase run,
\* 0 when there is no such word at k.
CapWordEnd(s, k) ==
    IF k < Len(s) /\ IsUpper(s[k]) /\ IsLower(s[k + 1])
    THEN LowerRunEnd(s, k + 1) ELSE 0

\* \b[A-Z][a-z]+\s+[A-Z][a-z]+\b : the first word must run up to the
\* whitespace, the second up to a word boundary.
TwoCapWordsAt(s, k) ==
    /\ BoundaryBefore(s, k)
    /\ CapWordEnd(s, k) > 0
    /\ LET e1 == CapWordEnd(s, k)
           e2 == SpaceRunEnd(s, e1 + 1)
       IN  /\ e2 > e1
           /\ CapWordEnd(s, e2 + 1) > 0
           /\ BoundaryAfter(s, CapWordEnd(s, e2 + 1))

\* \b[A-Z]{2,}\b : a whole run of capitals between word boundaries.
AcronymAt(s, k) ==
    /\ BoundaryBefore(s, k)
    /\ k <= Len(s) /\ IsUpper(s[k])
    /\ UpperRunEnd(s, k) > k
    /\ BoundaryAfter(s, UpperRunEnd(s, k))

\* RE_HAS_PROPERNOUN.search(s)
HasProperNoun(s) ==
    \E k \in 1..Len(s) : TwoCapWordsAt(s, k) \/ AcronymAt(s, k)

is_concrete(s) ==
    \/ HasNum(s)
    \/ HasProperNoun(s)
    \/ HasChar(s, DQUOTE) \/ HasChar(s, LDQUO) \/ HasChar(s, RDQUO)

\* difflib.SequenceMatcher(None, a, b): the length of the common block
\* that starts at a[i], b[j] within a[..ahi], b[..bhi].
RECURSIVE BlockLen(_, _, _, _, _, _)
BlockLen(a, b, x, y, ahi, bhi) ==
    IF x <= ahi /\ y <= bhi /\ a[x] = b[y]
    THEN 1 + BlockLen(a, b, x + 1, y + 1, ahi, bhi)
    ELSE 0

\* get_matching_blocks: the longest block (earliest in a, then earliest in
\* b), then the same to its left and to its right; the total matched size.
RECURSIVE Matches(_, _, _, _, _, _)
Matches(a, b, alo, ahi, blo, bhi) ==
    IF alo > ahi \/ blo > bhi THEN 0
    ELSE
      LET k == SetMax({BlockLen(a, b, x, y, ahi, bhi) :
                          x \in alo..ahi, y \in blo..bhi})
      IN  IF k = 0 THEN 0
          ELSE
            LET x0 == SetMin({x \in alo..ahi : \E y \in blo..bhi :
                                  BlockLen(a, b, x, y, ahi, bhi) = k})
                y0 == SetMin({y \in blo..bhi :
                                  BlockLen(a, b, x0, y, ahi, bhi) = k})
            IN  k + Matches(a, b, alo, x0 - 1, blo, y0 - 1)
                  + Matches(a, b, x0 + k, ahi, y0 + k, bhi)

\* SequenceMatcher.ratio() > thresh with thresh = 0.8, in integers:
\* 2*M/T > 8/10  <=>  10*M > 4*T  (ratio is 1.0 when both are empty).
THRESH_NUM == 8     \* line 114
THRESH_DEN == 10    \* line 114
RatioAbove(a, b) ==
    LET T == Len(a) + Len(b)
    IN  IF T = 0 THEN THRESH_NUM < THRESH_DEN
        ELSE 2 * Matches(a, b, 1, Len(a), 1, Len(b)) * THRESH_DEN
                 > THRESH_NUM * T

(* ------------------------------------------------------------------ *)
(* Bounds of the model                                                  *)
(* ------------------------------------------------------------------ *)

MaxFeed == 2        \* entries of a feed under Spec
LongFeed == 13      \* entries of the feed under SpecLong
MaxBatch == 2       \* records of one update_history batch under SpecHistory
HISTORY_CAP == 4    \* stands for the 2000 of line 187, scaled down

MAX_ITEMS == 12     \* line 24, the default

(* ------------------------------------------------------------------ *)
(* The environment: feed entries and TextGenerator stubs                *)
(* ------------------------------------------------------------------ *)

Fill(n) == [k \in 1..n |-> "x"]

\* Article (lines 48-53), as fetch_articles builds it.
ArticleA ==
    [title |-> S("Fire closes Main St"), link |-> "https://a",
     pubDate |-> "Mon", description |-> S("Crews stayed 3 hours")]
\* A title longer than 90 and a description longer than 110 characters.
ArticleB ==
    [title |-> S("Storm ") \o Fill(TITLE_CUT),  link |-> "https://b",
     pubDate |-> "Tue", description |-> S("Snow 9 ") \o Fill(DESC_CUT)]
ArticleC ==
    [title |-> S("Vote set"), link |-> "https://c",
     pubDate |-> "Wed", description |-> S("Board meets at 7")]

Articles == {ArticleA, ArticleB}

\* The sequences over X of length at most n.
SeqsUpTo(X, n) == UNION {[1..m -> X] : m \in 0..n}

\* The feeds Spec draws from, and the one long feed of SpecLong.
Feeds == SeqsUpTo(Articles, MaxFeed)
TheLongFeed == [k \in 1..LongFeed |-> IF k % 2 = 1 THEN ArticleA ELSE ArticleC]

\* What a stub may put in data["bullets"] (call_openai_json, line 103) for
\* an article: raw strings, bullet markers and stray blanks included.
\*   "varied": texts that do not depend on the article, of every kind the
\*             validator tells apart, and a response with a single bullet;
\*   "echo":   title and description as bullets 1 and 2, and one of two hooks.
GenReplies(kind, a) ==
    IF kind = "varied"
    THEN { << S("- Road shut at noon"), S("Two crews, 3 trucks"),
              <<BULLET>> \o S(" Sox  win 5.") >>,
           << S("Road shut at noon"), S("Two crews, 3 trucks"),
              S("Who won 5?") >>,
           << S("Road shut at noon"), S("Two crews, 3 trucks"),
              S("the team will review plans") >>,
           << S("Road shut at noon") >> }
    ELSE { << a.title, a.description, S("Sox win 5.") >>,
           << a.title, a.description, S("Who won 5?") >> }

\* What a stub may return as message.content of a repair call (line 130).
RepairReplies(kind) ==
    IF kind = "varied"
    THEN { <<DQUOTE>> \o S("Sox win 5.") \o <<DQUOTE>>,
           S(" Sox win 6"),
           S("Bruins lose 3\n"),
           S("Who won 5?"),
           S("Sox might win 5"),
           S("a a a a a a a a a a a a a a 5"),
           S("the team will review plans") }
    ELSE { S("Sox win 5."), S("Who won 5?") }

Stubs == {"varied", "echo"}

\* Every hook string a run of the model can hold: the verdicts of the
\* validator on them are computed once, below.
KnownHooks ==
    {h : h \in
        {FAILURE_HOOK, <<>>}
          \cup {FallbackHook(HOOK_TYPES[k]) : k \in 1..Len(HOOK_TYPES)}
          \cup UNION {{NormalizeHook(StripBullet(r[3])) :
                          r \in {q \in GenReplies(st, ArticleA) : Len(q) >= 3}} :
                      st \in Stubs}
          \cup UNION {{NormalizeHook(StripReply(r)) : r \in RepairReplies(st)} :
                      st \in Stubs}}

BanCache == {<<s, violates_ban(s)>> : s \in KnownHooks}
ConcreteCache == {<<s, is_concrete(s)>> : s \in KnownHooks}
SimilarCache == {<<a, b, RatioAbove(a, b)>> : a \in KnownHooks, b \in KnownHooks}

Violates(s) ==
    IF s \in KnownHooks THEN <<s, TRUE>> \in BanCache ELSE violates_ban(s)
Concrete(s) ==
    IF s \in KnownHooks THEN <<s, TRUE>> \in ConcreteCache ELSE is_concrete(s)
Similar(a, b) ==
    IF a \in KnownHooks /\ b \in KnownHooks
    THEN <<a, b, TRUE>> \in SimilarCache
    ELSE RatioAbove(a, b)

\* The similarity test switched off.
too_similar_never(s, history) == FALSE

\* lines 114-115
too_similar(s, history) == \E k \in 1..Len(history) : Similar(s, history[k])

\* Rejected without the similarity test, and without the concreteness test.
Rejected_no_similarity(s, history) == Violates(s) \/ ~Concrete(s)
Rejected_no_concrete(s, history) == Violates(s) \/ too_similar(s, history)

\* The condition of lines 149 and 154.
Rejected(s, history) ==
    Violates(s) \/ ~Concrete(s) \/ too_similar(s, history)

\* The loop test without the validation: repairs whatever the candidate.
LoopContinues_unconditional(s, history, n) == n < MAX_REPAIRS

\* The loop test off by one: a third repair.
LoopContinues_one_more(s, history, n) == Rejected(s, history) /\ n <= MAX_REPAIRS

\* line 149: the test of the while loop, n the repairs made so far.
LoopContinues(s, history, n) == Rejected(s, history) /\ n < MAX_REPAIRS

\* The hook committed as the loop left it, without the fallback.
FinalHook_keeps(s, history, ht) == s

\* lines 154-161: the hook that is committed.
FinalHook(s, history, ht) ==
    IF Rejected(s, history) THEN FallbackHook(ht) ELSE s

\* A window that is not reset when a run starts.
InitialWindow_stale == <<FAILURE_HOOK>>

\* line 136: the window a run starts with.
InitialWindow == <<>>

\* The window without the eviction of line 163.
PushWindow_no_evict(history, s) == Append(history, s)

\* lines 162-163: append, then drop the oldest entry beyond WINDOW.
PushWindow(history, s) ==
    LET pushed == Append(history, s)
    IN  IF Len(pushed) > WINDOW THEN Tail(pushed) ELSE pushed

\* line 141: the first three bullets, markers stripped.
FirstBullets(reply) ==
    [k \in 1..Min(3, Len(reply)) |-> StripBullet(reply[k])]

\* line 144: the bullet fallback of a failed generate call.
FallbackBullets(a) ==
    <<Take(a.title, TITLE_CUT), Take(a.description, DESC_CUT), FAILURE_HOOK>>

\* line 145: bullets padded with empty strings up to three.
PadBullets(bul) == bul \o [k \in 1..(3 - Len(bul)) |-> <<>>]

(* ------------------------------------------------------------------ *)
(* State                                                                *)
(* ------------------------------------------------------------------ *)

VARIABLES
    client,         \* TRUE iff OPENAI_API_KEY was set (lines 71-73)
    stub,           \* the TextGenerator behind client
    feed,           \* the entries the feed holds
    fs,             \* the files: news-data.json, news-history.json, their .tmp
    pc,             \* the position of main()
    site,           \* which write_json call is running: "now", "hist", "fatal"
    wobj,           \* obj of the running write_json call
    err,            \* the exception main has caught
    arts,           \* main: arts
    data,           \* main: data
    i,              \* summarize: the loop index
    hook_type,      \* summarize: hook_type
    bullets,        \* summarize: bullets
    hook,           \* summarize: hook
    attempts,       \* summarize: attempts
    recent_hooks,   \* summarize: recent_hooks
    out,            \* summarize: out
    new_articles,   \* update_history: new_articles, as last called
    \* bookkeeping about the article in progress, kept for the properties
    calls,          \* generator calls made for this article
    called,         \* a generator call was made in this run
    gen_failed,     \* the generate call of this article raised
    gen_reply,      \* data["bullets"] as the generate call returned it
    candidate,      \* hook as it stood at line 154
    fell_back,      \* the branch of line 154 was taken
    window_before   \* recent_hooks as it stood at line 154

env == <<client, stub, feed>>
locals == <<arts, data, i, hook_type, bullets, hook, attempts, recent_hooks, out>>
notes == <<calls, called, gen_failed, gen_reply, candidate, fell_back, window_before>>
vars == <<client, stub, feed, fs, pc, site, wobj, err,
          arts, data, i, hook_type, bullets, hook, attempts, recent_hooks, out,
          new_articles,
          calls, called, gen_failed, gen_reply, candidate, fell_back, window_before>>

(* ------------------------------------------------------------------ *)
(* Artifacts and files                                                  *)
(* ------------------------------------------------------------------ *)

\* The return values of summarize (lines 134 and 169) and the artifact of
\* the handler (line 199); datetime.now() is not modelled.
Digest(recs) ==
    [lastUpdated |-> "now", articles |-> recs,
     stats |-> [count |-> Len(recs), feed |-> "FEED_URL", model |-> "OPENAI_MODEL"]]
\* The digest of the no-client path with ordinary stats, no error status.
NoKeyDigest_no_status ==
    [lastUpdated |-> "now", articles |-> <<>>,
     stats |-> [count |-> 0, feed |-> "FEED_URL", model |-> "OPENAI_MODEL"]]

NoKeyDigest ==
    [lastUpdated |-> "now", articles |-> <<>>, stats |-> [error |-> "no_api_key"]]
ErrorDigest(e) ==
    [lastUpdated |-> "now", articles |-> <<>>, stats |-> [error |-> e]]

\* A record whose first bullet is overwritten by the hook.
Record_hook_first(a, b1, b2, h, ht) ==
    [title |-> a.title, link |-> a.link, pubDate |-> a.pubDate,
     summary |-> <<h, b2, h>>, hookType |-> ht]

\* The dict appended to out (lines 164-167).
Record(a, b1, b2, h, ht) ==
    [title |-> a.title, link |-> a.link, pubDate |-> a.pubDate,
     summary |-> <<b1, b2, h>>, hookType |-> ht]

\* A file is <<>> when absent and <<content>> otherwise; PARTIAL is the
\* content a failed json.dump leaves behind.
PARTIAL == [partial |-> TRUE]
FreshDisk == [now |-> <<>>, now_tmp |-> <<>>, hist |-> <<>>, hist_tmp |-> <<>>]

\* What an earlier run leaves on disk: the feed held ArticleA alone and the
\* generate call failed.
EarlierRecord ==
    Record(ArticleA, ArticleA.title, ArticleA.description, FAILURE_HOOK, "STAT_POINT")
UsedDisk ==
    [now |-> <<Digest(<<EarlierRecord>>)>>, now_tmp |-> <<>>,
     hist |-> <<[articles |-> <<EarlierRecord>>]>>, hist_tmp |-> <<>>]

Path(s) == IF s = "hist" THEN "hist" ELSE "now"
\* write_json dumping straight into the target path.
Tmp_in_place(s) == IF s = "hist" THEN "hist" ELSE "now"

\* line 177: tmp = path + ".tmp"
Tmp(s) == IF s = "hist" THEN "hist_tmp" ELSE "now_tmp"

\* read_json (lines 171-174): the parsed content, or the fallback when the
\* file is absent or does not parse.
read_json(path, fallback) ==
    IF fs[path] = <<>> \/ fs[path] = <<PARTIAL>> THEN fallback ELSE fs[path][1]

Key(a) == <<a.title, a.link>>

\* The cap of line 187 keeping the oldest entries instead of the newest.
MergeHistory_keeps_oldest(old, added) ==
    LET seen == {Key(old[k]) : k \in 1..Len(old)}
        appended == old \o SelectSeq(added, LAMBDA a : Key(a) \notin seen)
    IN  IF Len(appended) > HISTORY_CAP
        THEN SubSeq(appended, 1, HISTORY_CAP)
        ELSE appended

\* update_history up to the write (lines 182-187): the list it persists.
MergeHistory(old, added) ==
    LET seen == {Key(old[k]) : k \in 1..Len(old)}
        appended == old \o SelectSeq(added, LAMBDA a : Key(a) \notin seen)
    IN  IF Len(appended) > HISTORY_CAP
        THEN SubSeq(appended, Len(appended) - HISTORY_CAP + 1, Len(appended))
        ELSE appended

(* ------------------------------------------------------------------ *)
(* Initial states                                                       *)
(* ------------------------------------------------------------------ *)

UNSET == [unset |-> TRUE]

InitLocals ==
    /\ site = "" /\ wobj = UNSET /\ err = ""
    /\ arts = <<>> /\ data = UNSET /\ i = 0 /\ hook_type = ""
    /\ bullets = <<>> /\ hook = <<>> /\ attempts = 0
    /\ recent_hooks = <<>> /\ out = <<>>
    /\ new_articles = <<>>
    /\ calls = 0 /\ called = FALSE /\ gen_failed = FALSE /\ gen_reply = <<>>
    /\ candidate = <<>> /\ fell_back = FALSE /\ window_before = <<>>

\* One run of main() over a short feed, the generator of any kind of text.
Init ==
    /\ client \in BOOLEAN
    /\ stub = "varied"
    /\ feed \in Feeds
    /\ fs = FreshDisk
    /\ pc = "main"
    /\ InitLocals

\* One run of main() over a feed longer than MAX_ITEMS.
InitLong ==
    /\ client \in BOOLEAN
    /\ stub = "echo"
    /\ feed = TheLongFeed
    /\ fs \in {FreshDisk, UsedDisk}
    /\ pc = "main"
    /\ InitLocals

(* ------------------------------------------------------------------ *)
(* main() and summarize()                                               *)
(* ------------------------------------------------------------------ *)

\* A call of write_json(path, obj) from main or update_history starts.
CallWrite(s, obj) == site' = s /\ wobj' = obj /\ pc' = "dump"

\* An exception reaches the try of main (line 197), or leaves the handler.
Raise(e) ==
    IF site = "fatal"
    THEN pc' = "crashed" /\ err' = e
    ELSE pc' = "fatal" /\ err' = e

\* line 192: arts = fetch_articles(FEED_URL, MAX_ITEMS)
Fetch ==
    /\ pc = "main"
    /\ arts' = Take(feed, MAX_ITEMS)
    /\ pc' = "summarize"
    /\ UNCHANGED <<env, new_articles, fs, site, wobj, err, data, i, hook_type, bullets, hook,
                   attempts, recent_hooks, out, notes>>

FetchRaise ==
    /\ pc = "main"
    /\ Raise("fetch failed")
    /\ UNCHANGED <<env, new_articles, fs, site, wobj, locals, notes>>

\* lines 133-134 and 194: no client, the digest without records is written.
SummarizeNoClient ==
    /\ pc = "summarize"
    /\ ~client
    /\ data' = NoKeyDigest
    /\ CallWrite("now", NoKeyDigest)
    /\ UNCHANGED <<env, new_articles, fs, err, arts, i, hook_type, bullets, hook, attempts,
                   recent_hooks, out, notes>>

\* lines 135-137
SummarizeBegin ==
    /\ pc = "summarize"
    /\ client
    /\ out' = <<>>
    /\ recent_hooks' = InitialWindow
    /\ i' = 0
    /\ pc' = "article"
    /\ UNCHANGED <<env, new_articles, fs, site, wobj, err, arts, data, hook_type, bullets, hook,
                   attempts, notes>>

\* lines 145-148, after bullets is set on either path of the try.
StartArticle(bul, failed, reply) ==
    LET padded == PadBullets(bul)
    IN  /\ hook_type' = pick_hook_type(i)
        /\ bullets' = padded
        /\ hook' = NormalizeHook(padded[3])
        /\ attempts' = 0
        /\ calls' = 1
        /\ called' = TRUE
        /\ gen_failed' = failed
        /\ gen_reply' = reply
        /\ pc' = "validate"
        /\ UNCHANGED <<env, new_articles, fs, site, wobj, err, arts, data, i, recent_hooks, out,
                       candidate, fell_back, window_before>>

\* lines 138-141: the generate call returns data with a list of bullets.
Generate ==
    /\ pc = "article"
    /\ i < Len(arts)
    /\ \E reply \in GenReplies(stub, arts[i + 1]) :
          StartArticle(FirstBullets(reply), FALSE, reply)

\* lines 142-144: the generate call raises, or its reply is not the JSON
\* expected; the bullet fallback is synthesized.
GenerateRaise ==
    /\ pc = "article"
    /\ i < Len(arts)
    /\ StartArticle(FallbackBullets(arts[i + 1]), TRUE, <<>>)

\* lines 149-153: one round of the repair loop.
Repair ==
    /\ pc = "validate"
    /\ LoopContinues(hook, recent_hooks, attempts)
    /\ \E reply \in RepairReplies(stub) :
          hook' = NormalizeHook(StripReply(reply))
    /\ attempts' = attempts + 1
    /\ calls' = calls + 1
    /\ UNCHANGED <<env, new_articles, fs, pc, site, wobj, err, arts, data, i, hook_type, bullets,
                   recent_hooks, out, called, gen_failed, gen_reply, candidate,
                   fell_back, window_before>>

\* line 150: repair_hook raises; nothing in summarize catches it, the
\* exception leaves summarize and reaches the try of main.
RepairRaise ==
    /\ pc = "validate"
    /\ LoopContinues(hook, recent_hooks, attempts)
    /\ calls' = calls + 1
    /\ Raise("repair failed")
    /\ UNCHANGED <<env, new_articles, fs, site, wobj, locals, called, gen_failed, gen_reply,
                   candidate, fell_back, window_before>>

\* lines 154-167: the loop is left, the fallback replaces a hook that is
\* still rejected, the hook enters the window and the record is appended.
Commit ==
    /\ pc = "validate"
    /\ ~LoopContinues(hook, recent_hooks, attempts)
    /\ LET final == FinalHook(hook, recent_hooks, hook_type)
       IN  /\ hook' = final
           /\ recent_hooks' = PushWindow(recent_hooks, final)
           /\ out' = Append(out, Record(arts[i + 1], bullets[1], bullets[2], final,
                                        hook_type))
    /\ candidate' = hook
    /\ fell_back' = Rejected(hook, recent_hooks)
    /\ window_before' = recent_hooks
    /\ pc' = "sleep"
    /\ UNCHANGED <<env, new_articles, fs, site, wobj, err, arts, data, i, hook_type, bullets,
                   attempts, calls, called, gen_failed, gen_reply>>

\* line 168, and the for loop moves on to the next article.
Sleep ==
    /\ pc = "sleep"
    /\ i' = i + 1
    /\ pc' = "article"
    /\ calls' = 0 /\ gen_failed' = FALSE /\ gen_reply' = <<>>
    /\ candidate' = <<>> /\ fell_back' = FALSE /\ window_before' = <<>>
    /\ UNCHANGED <<env, new_articles, fs, site, wobj, err, arts, data, hook_type, bullets, hook,
                   attempts, recent_hooks, out, called>>

\* lines 169 and 194: summarize returns, main writes the digest.
SummarizeReturn ==
    /\ pc = "article"
    /\ i = Len(arts)
    /\ data' = Digest(out)
    /\ CallWrite("now", Digest(out))
    /\ UNCHANGED <<env, new_articles, fs, err, arts, i, hook_type, bullets, hook, attempts,
                   recent_hooks, out, notes>>

\* line 178: the temporary file is written.
DumpTmp ==
    /\ pc = "dump"
    /\ fs' = [fs EXCEPT ![Tmp(site)] = <<wobj>>]
    /\ pc' = "replace"
    /\ UNCHANGED <<env, new_articles, site, wobj, err, locals, notes>>

\* line 178 raises: open() failed and the temporary file is as before, or
\* json.dump failed and it holds a part of the text.
DumpRaise ==
    /\ pc = "dump"
    /\ \E left \in {fs[Tmp(site)], <<PARTIAL>>} :
          fs' = [fs EXCEPT ![Tmp(site)] = left]
    /\ Raise("write failed")
    /\ UNCHANGED <<env, new_articles, site, wobj, locals, notes>>

\* line 179: os.replace(tmp, path); then the caller goes on.
Replace ==
    /\ pc = "replace"
    /\ fs' = [fs EXCEPT ![Path(site)] = fs[Tmp(site)], ![Tmp(site)] = <<>>]
    /\ pc' = IF site = "now" THEN "history" ELSE "done"
    /\ UNCHANGED <<env, new_articles, site, wobj, err, locals, notes>>

ReplaceRaise ==
    /\ pc = "replace"
    /\ Raise("replace failed")
    /\ UNCHANGED <<env, new_articles, fs, site, wobj, locals, notes>>

\* line 195 and lines 182-188: update_history up to its write_json call.
UpdateHistory ==
    /\ pc = "history"
    /\ new_articles' = data.articles
    /\ LET hist == read_json("hist", [articles |-> <<>>])
       IN  CallWrite("hist", [articles |-> MergeHistory(hist.articles, data.articles)])
    /\ UNCHANGED <<env, fs, err, locals, notes>>

\* lines 197-199: the handler of main writes the artifact of the error.
Fatal ==
    /\ pc = "fatal"
    /\ CallWrite("fatal", ErrorDigest(err))
    /\ UNCHANGED <<env, new_articles, fs, err, locals, notes>>

Next ==
    \/ Fetch \/ FetchRaise
    \/ SummarizeNoClient \/ SummarizeBegin
    \/ Generate \/ GenerateRaise
    \/ Repair \/ RepairRaise
    \/ Commit \/ Sleep \/ SummarizeReturn
    \/ DumpTmp \/ DumpRaise \/ Replace \/ ReplaceRaise
    \/ UpdateHistory \/ Fatal

Spec == Init /\ [][Next]_vars
SpecLong == InitLong /\ [][Next]_vars

(* ------------------------------------------------------------------ *)
(* update_history on its own: any sequence of calls, any batches        *)
(* ------------------------------------------------------------------ *)

\* Two more entries of a feed, for batches with five different keys.
ArticleD ==
    [title |-> S("Bridge reopens"), link |-> "https://d",
     pubDate |-> "Thu", description |-> S("Closed since May 2")]
ArticleE ==
    [title |-> S("MBTA adds buses"), link |-> "https://e",
     pubDate |-> "Fri", description |-> S("Route 28 gains 4 trips")]

\* Records as summarize emits them, with five different (title, link).
RecordPool ==
    { EarlierRecord,
      Record(ArticleC, ArticleC.title, ArticleC.description,
             S("Bruins lose 3"), "STAT_POINT"),
      Record(ArticleB, S("Road shut at noon"), <<>>,
             FallbackHook("LOCAL_IMPACT"), "LOCAL_IMPACT"),
      Record(ArticleD, S("Road shut at noon"), S("Two crews, 3 trucks"),
             S("Sox win 5"), "QUOTE_SHARD"),
      Record(ArticleE, ArticleE.title, ArticleE.description,
             S("Sox win 6"), "WHAT_CHANGED") }

Batches == SeqsUpTo(RecordPool, MaxBatch)

InitHistory ==
    /\ client = TRUE
    /\ stub = "varied"
    /\ feed = <<>>
    /\ fs = FreshDisk
    /\ pc = "archive"
    /\ InitLocals

\* line 181: update_history is called with a batch of records.
update_history_call ==
    /\ pc = "archive"
    /\ \E batch \in Batches : new_articles' = batch
    /\ pc' = "merge"
    /\ err' = ""
    /\ UNCHANGED <<env, fs, site, wobj, locals, notes>>

\* lines 182-188: the body of update_history, its write_json succeeding:
\* the temporary file is renamed onto the archive (line 179).
update_history ==
    /\ pc = "merge"
    /\ LET hist == read_json("hist", [articles |-> <<>>])
       IN  fs' = [fs EXCEPT !["hist"] =
                     <<[articles |-> MergeHistory(hist.articles, new_articles)]>>,
                           !["hist_tmp"] = <<>>]
    /\ pc' = "merged"
    /\ UNCHANGED <<env, new_articles, site, wobj, err, locals, notes>>

\* lines 182-188 with line 178 raising: the archive stays as it was and the
\* exception goes to the caller.
update_history_raise ==
    /\ pc = "merge"
    /\ fs' = [fs EXCEPT !["hist_tmp"] = <<PARTIAL>>]
    /\ err' = "write failed"
    /\ new_articles' = <<>>
    /\ pc' = "archive"
    /\ UNCHANGED <<env, site, wobj, locals, notes>>

\* update_history returns to its caller.
update_history_return ==
    /\ pc = "merged"
    /\ new_articles' = <<>>
    /\ pc' = "archive"
    /\ UNCHANGED <<env, fs, site, wobj, err, locals, notes>>

NextHistory ==
    \/ update_history_call \/ update_history \/ update_history_raise
    \/ update_history_return

SpecHistory == InitHistory /\ [][NextHistory]_vars

(* ------------------------------------------------------------------ *)
(* Properties                                                           *)
(* ------------------------------------------------------------------ *)

LastRecord == out[Len(out)]
HooksOf(recs) == [k \in 1..Len(recs) |-> recs[k].summary[3]]
LastN(s, n) == SubSeq(s, Len(s) - Min(n, Len(s)) + 1, Len(s))
InArticle == pc \in {"validate", "sleep"}

\* HookValidator's acceptance predicate (spec 4.1).
Accepted(s, window) ==
    ~Violates(s) /\ Concrete(s) /\ ~too_similar(s, window)

\* C1: an exception of the generator, in the generate call or in a repair
\* call, is caught inside the loop: none leaves summarize and reaches the
\* handler of main.
C1_GeneratorErrorsStayLocal == ~(pc = "fatal" /\ err = "repair failed")

\* C2: the hook of every record, when the record is emitted, is accepted
\* by the validator against the window as it stood for that article, or is
\* the fallback literal of the record's hookType.
C2_HookAcceptedOrFallback ==
    pc = "sleep" =>
        \/ Accepted(LastRecord.summary[3], window_before)
        \/ LastRecord.summary[3] = FallbackHook(LastRecord.hookType)

\* C2 witness: a record whose hook is a fallback literal that the validator
\* itself would reject (it is not concrete).
C2_Witness ==
    /\ pc = "sleep" /\ fell_back
    /\ ~Concrete(LastRecord.summary[3])

\* C3: at most 3 generator calls per article (1 generate, 2 repairs); when
\* every candidate was rejected, 2 repairs were made and the hook committed
\* is the fallback literal of the article's hook type.
C3_ThreeCallsThenFallback ==
    /\ calls <= 3
    /\ (pc = "sleep" /\ ~Accepted(candidate, window_before)) =>
          /\ attempts = 2
          /\ calls = 3
          /\ LastRecord.summary[3] = FallbackHook(pick_hook_type(i))

\* C3 witness: the third article's candidate is the first article's hook,
\* still rejected after both repairs, and the fallback is committed.
C3_Witness ==
    /\ pc = "sleep" /\ i = 2 /\ ~gen_failed
    /\ candidate = out[1].summary[3]
    /\ attempts = 2 /\ calls = 3
    /\ LastRecord.summary[3] = FallbackHook("LOCAL_IMPACT")

\* C4 as stated: after a generate call that raised, no repair call is made
\* and the literal of the bullet fallback is the record's hook, whatever
\* the window holds.
C4_FailureHookUnconditional ==
    /\ (InArticle /\ gen_failed) => calls = 1
    /\ (pc = "sleep" /\ gen_failed) => LastRecord.summary[3] = FAILURE_HOOK

\* C4 amended: after a generate call that raised, the literal of the bullet
\* fallback is the first candidate and is validated like any other: it is
\* committed without a repair call exactly when no hook of the window is
\* too similar to it; otherwise a repair call is made.
C4_FailureHookIsValidated ==
    /\ (pc = "validate" /\ gen_failed /\ attempts = 0) => hook = FAILURE_HOOK
    /\ (pc = "sleep" /\ gen_failed) =>
          IF too_similar(FAILURE_HOOK, window_before)
          THEN calls >= 2
          ELSE /\ calls = 1
               /\ ~fell_back
               /\ LastRecord.summary[3] = FAILURE_HOOK

\* C4 witness: the generate call raised while the window held the same
\* literal, and a repair call was made.
C4_Witness ==
    /\ pc = "sleep" /\ gen_failed
    /\ \E k \in 1..Len(window_before) : window_before[k] = FAILURE_HOOK
    /\ calls >= 2

\* C5 as stated: a reply with fewer than 3 bullets is handled as a failure,
\* the bullets are the bullet fallback and no repair call is made.
C5_ShortReplyIsFailure ==
    (InArticle /\ ~gen_failed /\ Len(gen_reply) < 3) =>
        /\ bullets = FallbackBullets(arts[i + 1])
        /\ calls = 1

\* C5 amended: a reply with fewer than 3 bullets is padded with empty
\* strings: the record keeps the bullets the generator returned (markers
\* stripped), the missing ones are empty, the first candidate is the empty
\* string, and it is never committed without a repair call.
C5_ShortReplyIsPadded ==
    (InArticle /\ ~gen_failed /\ Len(gen_reply) < 3) =>
        /\ \A k \in 1..3 :
              bullets[k] = IF k <= Len(gen_reply)
                           THEN Strip(gen_reply[k], {" ", BULLET, "-"})
                           ELSE <<>>
        /\ attempts = 0 => hook = <<>>
        /\ pc = "sleep" =>
              /\ calls >= 2
              /\ LastRecord.summary[1] = bullets[1]
              /\ LastRecord.summary[2] = bullets[2]

\* C5 witness: a record made from a reply of one bullet.
C5_Witness ==
    /\ pc = "sleep" /\ ~gen_failed /\ Len(gen_reply) = 1
    /\ LastRecord.summary[2] = <<>>
    /\ calls >= 2

\* C6: between articles the window holds at most 10 hooks, the hooks of
\* the last min(k, 10) of the k records so far, in commit order.
C6_WindowIsLastTen ==
    /\ Len(recent_hooks) <= 10
    /\ pc \in {"article", "sleep"} => recent_hooks = LastN(HooksOf(out), 10)

\* C6 witness: twelve articles done, the hooks of the first two evicted.
C6_Witness ==
    /\ pc = "article" /\ Len(out) = 12
    /\ Len(recent_hooks) = 10
    /\ recent_hooks[1] = out[3].summary[3]
    /\ recent_hooks[1] # out[1].summary[3]

\* C7: while article i is validated the window holds only hooks committed
\* by earlier articles of this run (none for the first article), and the
\* article's own hook enters the window after its last validation.
C7_WindowHoldsEarlierOnly ==
    /\ pc = "validate" =>
          /\ Len(out) = i
          /\ Len(recent_hooks) <= i
          /\ \A k \in 1..Len(recent_hooks) :
                recent_hooks[k] = out[i - Len(recent_hooks) + k].summary[3]
    /\ pc = "sleep" =>
          /\ Len(out) = i + 1
          /\ Len(window_before) <= i
          /\ \A k \in 1..Len(window_before) :
                window_before[k] = out[i - Len(window_before) + k].summary[3]

\* C7 witness: a hook accepted against the earlier hooks, which would be
\* rejected against the window that holds it.
C7_Witness ==
    /\ pc = "sleep" /\ i >= 1 /\ ~fell_back
    /\ ~too_similar(LastRecord.summary[3], window_before)
    /\ too_similar(LastRecord.summary[3], recent_hooks)

\* C8: without a client no generator call is made, and summarize returns
\* no records and the status no_api_key, for any feed.
C8_NoClientShortCircuits ==
    ~client =>
        /\ ~called /\ calls = 0
        /\ pc \notin {"article", "validate", "sleep"}
        /\ (pc \in {"dump", "replace", "history", "done"} /\ err = "") =>
              /\ data.articles = <<>>
              /\ data.stats = [error |-> "no_api_key"]

\* C8 witness: a run without client over a feed with entries has ended.
C8_Witness ==
    /\ ~client /\ pc = "done" /\ err = ""
    /\ feed # <<>>
    /\ fs["now"] = <<data>>

\* C9: no hook of a record holds a question mark or more than 14 words.
C9_NoQuestionNoLongHook ==
    \A k \in 1..Len(out) :
        /\ ~HasChar(out[k].summary[3], "?")
        /\ WordCount(out[k].summary[3]) <= 14

\* C9 witness: the hook the generator returned held a question mark and
\* the record holds its repair.
C9_Witness ==
    /\ pc = "sleep" /\ Len(gen_reply) = 3
    /\ HasChar(gen_reply[3], "?")
    /\ ~fell_back

\* C10: every (title, link) pair occurs at most once in the archive.
C10_ArchiveKeysUnique ==
    LET h == read_json("hist", [articles |-> <<>>]).articles
    IN  \A j, k \in 1..Len(h) : j # k => Key(h[j]) # Key(h[k])

\* The archive as a reader of news-history.json finds it.
Archive == read_json("hist", [articles |-> <<>>]).articles
KeysOf(recs) == {Key(recs[k]) : k \in 1..Len(recs)}

\* C11: the archive never holds more than HISTORY_CAP entries, and a call
\* of update_history persists the earlier entries in their order followed
\* by the records of the batch whose key the archive did not hold, in batch
\* order, cut to the HISTORY_CAP last entries of that list.
C11_ArchiveCappedMostRecent ==
    /\ [](Len(Archive) <= HISTORY_CAP)
    /\ [][(pc = "merge" /\ pc' = "merged") =>
            LET fresh == SelectSeq(new_articles,
                                   LAMBDA a : Key(a) \notin KeysOf(Archive))
            IN  Archive' = LastN(Archive \o fresh, HISTORY_CAP)]_vars

\* C11 witness: a call has returned a full archive that ends with the
\* second record of the batch and no longer holds the key of the first,
\* which it held before: the oldest entry was dropped.
C11_Witness ==
    /\ pc = "merged"
    /\ Len(Archive) = HISTORY_CAP
    /\ Len(new_articles) = 2
    /\ Archive[HISTORY_CAP] = new_articles[2]
    /\ Key(new_articles[1]) \notin KeysOf(Archive)

\* A file that holds a complete JSON document.
WellFormed(f) == f # <<>> /\ f # <<PARTIAL>>

\* C12: whatever fails in fetching or in writing files, main ends without
\* an unhandled exception, and once it has ended news-data.json holds a
\* well-formed artifact.
C12_AlwaysAnArtifact ==
    /\ pc # "crashed"
    /\ pc \in {"done", "crashed"} => WellFormed(fs["now"])

\* C13: a target path never holds a partial write: its content changes
\* only by the rename of line 179, to the complete object being written,
\* and a failed write of the temporary file leaves it as it was.
C13_TargetNeverPartial ==
    /\ [](fs["now"] # <<PARTIAL>> /\ fs["hist"] # <<PARTIAL>>)
    /\ [][\A path \in {"now", "hist"} :
            fs'[path] # fs[path] =>
                /\ pc = "replace" /\ path = Path(site)
                /\ fs'[path] = <<wobj>>]_vars

\* C13 witness: the dump of the digest failed half-way; the temporary file
\* is partial and news-data.json still holds the digest of the earlier run.
C13_Witness ==
    /\ pc = "fatal" /\ site = "now" /\ err = "write failed"
    /\ fs["now_tmp"] = <<PARTIAL>>
    /\ fs["now"] = UsedDisk["now"]

\* C14: the record at position k (from 1) has the title and the link of
\* the k-th article given to summarize and the hook type HOOK_TYPES[(k - 1)
\* mod 7], whatever the generator returned; there is one record per
\* article processed, and the digest holds them all in feed order.
C14_RecordsFollowFeed ==
    /\ Len(out) <= Len(arts)
    /\ \A k \in 1..Len(out) :
          /\ out[k].title = arts[k].title
          /\ out[k].link = arts[k].link
          /\ out[k].hookType = HOOK_TYPES[((k - 1) % 7) + 1]
    /\ pc \in {"validate", "sleep"} => Len(out) = IF pc = "sleep" THEN i + 1 ELSE i
    /\ (client /\ site = "now" /\ pc = "dump") =>
          /\ Len(out) = Len(arts)
          /\ data.articles = out

\* C14 witness: twelve records; the eighth has the first hook type again
\* and its fallback literal, the ninth a hook the generator returned.
C14_Witness ==
    /\ client /\ site = "now" /\ pc = "dump"
    /\ Len(out) = 12
    /\ out[8].hookType = "STAT_POINT"
    /\ out[8].summary[3] = FallbackHook("STAT_POINT")
    /\ out[9].summary[3] # FallbackHook("QUOTE_SHARD")

\* C15: from a candidate under validation, an accepted one is committed
\* unchanged without a further call; a rejected one with fewer than 2
\* repairs gets a repair call; a rejected one after 2 repairs is replaced
\* by the literal of the hook type of the position. A generator call after
\* the first is made only for a rejected candidate, and a record holds the
\* fallback exactly when the candidate was still rejected after 2 repairs.
C15_RepairOnlyWhileRejected ==
    /\ [][pc = "validate" =>
            IF Accepted(hook, recent_hooks)
            THEN /\ pc' = "sleep" /\ calls' = calls
                 /\ hook' = hook /\ LastRecord' .summary[3] = hook
            ELSE IF attempts < 2
            THEN calls' = calls + 1 /\ pc' \in {"validate", "fatal"}
            ELSE /\ pc' = "sleep" /\ calls' = calls
                 /\ LastRecord' .summary[3] = FallbackHook(pick_hook_type(i))]_vars
    /\ [][(calls' > calls /\ calls >= 1) =>
            pc = "validate" /\ ~Accepted(hook, recent_hooks)]_vars
    /\ [](pc = "sleep" =>
            /\ calls = attempts + 1
            /\ fell_back <=> (attempts = 2 /\ ~Accepted(candidate, window_before)))

\* C15 witness: the candidate was rejected, the first repair was accepted
\* and committed as it was, with 2 calls in all.
C15_Witness ==
    /\ pc = "sleep" /\ ~gen_failed
    /\ attempts = 1 /\ calls = 2 /\ ~fell_back
    /\ Len(gen_reply) = 3
    /\ ~Accepted(NormalizeHook(StripBullet(gen_reply[3])), window_before)
    /\ LastRecord.summary[3] = candidate

\* Bullet k (1 or 2) as the generate step of the article in progress
\* obtained it: the truncated title or description when the call raised,
\* else the k-th bullet returned, markers stripped, or the empty string
\* when fewer than k bullets were returned.
ObtainedBullet(k) ==
    IF gen_failed
    THEN IF k = 1 THEN Take(arts[i + 1].title, TITLE_CUT)
                  ELSE Take(arts[i + 1].description, DESC_CUT)
    ELSE IF k <= Len(gen_reply) THEN Strip(gen_reply[k], {" ", BULLET, "-"})
    ELSE <<>>

\* C16: repairs and the fallback change the hook alone: bullets 1 and 2
\* stay as the generate step obtained them through every repair, and the
\* record emitted holds them, whatever the number of repairs and whether
\* or not the fallback was used.
C16_RepairsChangeHookOnly ==
    InArticle =>
        /\ bullets[1] = ObtainedBullet(1)
        /\ bullets[2] = ObtainedBullet(2)
        /\ pc = "sleep" =>
              /\ LastRecord.summary[1] = ObtainedBullet(1)
              /\ LastRecord.summary[2] = ObtainedBullet(2)

\* C16 witness: two repairs, then the fallback; the record has the first
\* bullet the generator returned, its marker stripped.
C16_Witness ==
    /\ pc = "sleep" /\ ~gen_failed /\ fell_back /\ attempts = 2
    /\ Len(gen_reply) = 3
    /\ gen_reply[1] = S("- Road shut at noon")
    /\ LastRecord.summary[1] = S("Road shut at noon")
    /\ LastRecord.summary[2] = S("Two crews, 3 trucks")
    /\ LastRecord.summary[3] # candidate

\* The 7 literals of lines 155-161.
FallbackLiterals == {FallbackHook(HOOK_TYPES[n]) : n \in 1..Len(HOOK_TYPES)}

\* C17: two identical entries of the window are a fallback literal, and a
\* hook identical to one the window held is committed only as the fallback
\* literal of the hook type of its article.
C17_WindowDuplicatesAreFallbacks ==
    /\ \A j, k \in 1..Len(recent_hooks) :
          (j < k /\ recent_hooks[j] = recent_hooks[k]) =>
              recent_hooks[j] \in FallbackLiterals
    /\ (pc = "sleep" /\ \E k \in 1..Len(window_before) :
                            window_before[k] = LastRecord.summary[3]) =>
          /\ fell_back
          /\ LastRecord.summary[3] = FallbackHook(LastRecord.hookType)

\* C17 witness: the eighth article falls back to the literal the first one
\* fell back to, which is still in the window: the window holds it twice.
C17_Witness ==
    /\ pc = "sleep" /\ i = 7 /\ fell_back
    /\ window_before[1] = FallbackHook("STAT_POINT")
    /\ recent_hooks[1] = recent_hooks[8]
    /\ \E k \in 2..7 : recent_hooks[k] \notin FallbackLiterals

\* C18: update_history runs only once news-data.json holds the digest;
\* when update_history has raised on a batch with records, main ends with
\* news-data.json holding the artifact of the error, without records; when
\* fetch or summarize has raised, the archive is as it was.
C18_HistoryAfterDigest ==
    /\ pc = "history" => (fs["now"] = <<data>> /\ err = "")
    /\ (pc \in {"done", "crashed"} /\ err # "" /\ new_articles # <<>>) =>
          fs["now"] = <<ErrorDigest(err)>>
    /\ err \in {"fetch failed", "repair failed"} => fs["hist"] = FreshDisk["hist"]

\* C19: update_history is idempotent: from any archive and for any batch,
\* the list a second call with the same batch persists is the list the
\* first call persisted.
C19_UpdateHistoryIdempotent ==
    \A batch \in Batches :
        MergeHistory(MergeHistory(Archive, batch), batch)
            = MergeHistory(Archive, batch)

====
